---- MODULE Spec2Model ----
(***************************************************************************)
(* NoorSigner: the multi-account key-signing daemon.                       *)
(*                                                                         *)
(* Strings are modelled as tuples: <<>> is the empty string, an npub is    *)
(* <<"npub1", k>> (the bech32 text of the public key of key k), a hex      *)
(* pubkey is <<"hex", k>>.  Byte strings (an nsec, a derived key, a        *)
(* session token, a ciphertext) are tuples of 2-bit bytes, so the XOR      *)
(* stream cipher of storage.go is computed, not assumed.                   *)
(***************************************************************************)
EXTENDS Integers, Sequences, FiniteSets, TLC

\* ------------------------------------------------------------------ bounds

\* connections the daemon accepts in one run, any two of them in flight together
MaxConns == 2
\* connections the daemon accepts in one run when it serves them one at a time
MaxSeqConns == 3
\* last instant of the clock of the start-up specification
MaxTime == 3
\* program invocations (noorsigner daemon) of the start-up specification
MaxStarts == 3
\* calls of migrateToMultiAccount of the migration specification
MaxMigrations == 2

\* ------------------------------------------------------- program constants

\* 24 * time.Hour, in ticks of the clock: a whole number of the seconds that
\* Unix() counts
TrustPeriod == 2

\* ticks of the clock in one second of Time.Unix(): the clock is finer than the
\* timestamps a trust_session file keeps
UnixTicks == 2

\* ------------------------------------------------------------------- bytes

Byte == 0..3

Xor(a, b) ==
    (((a % 2) + (b % 2)) % 2) + (2 * ((((a \div 2) % 2) + ((b \div 2) % 2)) % 2))

\* out[i] = in[i] ^ key[i % len(key)]
XorStream(data, key) ==
    [i \in 1..Len(data) |-> Xor(data[i], key[((i - 1) % Len(key)) + 1])]

\* ---------------------------------------------------------------- identity

Keys == {"A", "B", "C"}

\* the directories that hold a keys.encrypted and a trust_session: the account
\* directory of each key, and the storage root (the single-account format)
Dirs == Keys \cup {"root"}

NoStr == <<>>

KeyByte(k) == CASE k = "A" -> 1 [] k = "B" -> 2 [] OTHER -> 3

\* the bech32 checksum of an nsec, one byte in the model
Checksum(b) == Xor(b, 1)

NsecPrefix == 3

\* the text "nsec1..." of key k
NsecOf(k) == <<NsecPrefix, KeyByte(k), Checksum(KeyByte(k))>>

Npub(k) == <<"npub1", k>>

PubkeyHex(k) == <<"hex", k>>

\* the same pubkey written with the hex digits A-F in upper case
UpperHex(pk) == <<"HEX", pk[2]>>

\* strings.ToLower of a hex pubkey
LowerHex(pk) == IF pk = NoStr THEN NoStr ELSE <<"hex", pk[2]>>

\* the same npub followed by a path separator, "npub1.../"
NpubSlash(k) == <<"npub1", k, "/">>

NoKey == [scalar |-> "nil"]

\* a parser that takes every string for the nsec of some key
nsecToAnyKey(nsec) == [scalar |-> "C"]

\* nsecToPrivateKey: a string with the nsec1 prefix is bech32-decoded (checksum,
\* payload of 32 bytes); any other string is hex-decoded, and a string of odd
\* length is no hex string.  NoKey stands for the error return.
nsecToPrivateKey(nsec) ==
    IF Len(nsec) > 0 /\ nsec[1] = NsecPrefix
    THEN IF /\ Len(nsec) = 3
            /\ nsec[3] = Checksum(nsec[2])
            /\ \E k \in Keys : KeyByte(k) = nsec[2]
         THEN [scalar |-> CHOOSE k \in Keys : KeyByte(k) = nsec[2]]
         ELSE NoKey
    ELSE NoKey

\* an encoder that gives every key the same npub
privateKeyToOneNpub(key) == Npub("C")

privateKeyToNpub(key) == Npub(key.scalar)

\* npubToPubkey: bech32-decodes the npub; NoStr stands for the error return
\* (callers that drop the error keep the empty string).
npubToPubkey(npub) ==
    IF Len(npub) = 2 /\ npub[1] = "npub1" THEN PubkeyHex(npub[2]) ELSE NoStr

\* getAccountDir: filepath.Join(accountsDir, npub) cleans the path, so a trailing
\* separator is dropped.  The result is the directory name under accounts/.
getAccountDir(npub) ==
    IF Len(npub) = 3 /\ npub[3] = "/" THEN <<npub[1], npub[2]>> ELSE npub

\* ------------------------------------------------------------- hex, decimal

HexChars == <<"0", "1", "2", "3">>

\* an error return of a byte-string function: no byte has this value
BadHex == <<-1>>

\* encodeHex: one character per (2-bit) byte
encodeHex(data) == [i \in 1..Len(data) |-> HexChars[data[i] + 1]]

hexCharToNibble(c) ==
    IF \E n \in Byte : HexChars[n + 1] = c
    THEN CHOOSE n \in Byte : HexChars[n + 1] = c
    ELSE -1

\* decodeHex: BadHex stands for the error return (a character that is no digit)
decodeHex(s) ==
    IF \E i \in 1..Len(s) : hexCharToNibble(s[i]) = -1
    THEN BadHex
    ELSE [i \in 1..Len(s) |-> hexCharToNibble(s[i])]

Digits == <<"0", "1", "2", "3", "4", "5", "6", "7", "8", "9">>

\* fmt.Sprintf("%d", t.Unix()), for the instants of the model (below 100)
FormatUnix(n) ==
    IF n < 10 THEN <<Digits[n + 1]>> ELSE <<Digits[(n \div 10) + 1], Digits[(n % 10) + 1]>>

\* Time.Unix(): whole seconds, the fraction is dropped
Unix(t) == t \div UnixTicks

\* time.Unix(sec, 0)
FromUnix(sec) == sec * UnixTicks

DigitValue(c) ==
    IF \E n \in 0..9 : Digits[n + 1] = c
    THEN CHOOSE n \in 0..9 : Digits[n + 1] = c
    ELSE -1

RECURSIVE ParseDigits(_, _)
ParseDigits(s, result) ==
    IF s = <<>> THEN result ELSE ParseDigits(Tail(s), (result * 10) + DigitValue(Head(s)))

\* parseInt64: result = result*10 + digit over the characters, so the empty
\* string parses as 0; -1 stands for the error return (a character that is no digit)
parseInt64(s) ==
    IF \E i \in 1..Len(s) : DigitValue(s[i]) = -1 THEN -1 ELSE ParseDigits(s, 0)

\* ------------------------------------------------------------------ storage

Passwords == {"pwA", "pwB"}

PwByte(p) == CASE p = "pwA" -> 1 [] p = "pwB" -> 2 [] OTHER -> 0

\* "Password must be at least 8 characters" of the command add-account
MinPasswordLen == 8

\* len(password): "pw7" stands for a password of seven characters, the others
\* have eight
PwLen(p) == IF p = "pw7" THEN 7 ELSE 8

\* the password each key is stored under by its owner
PwOf(k) == IF k = "B" THEN "pwB" ELSE "pwA"

Salts == {<<0>>, <<1>>}

\* keyLen of storage.go, in bytes of the model: shorter than an nsec, so the
\* key stream wraps around as in the code
keyLen == 2

\* scrypt.Key(password, salt, N, r, p, keyLen): a deterministic function of
\* password and salt; different passwords give different key streams
scryptKey(password, salt) ==
    [i \in 1..keyLen |-> Xor(Xor(PwByte(password), salt[1]), i - 1)]

\* encryptNsec, for the salt rand.Read has drawn
encryptNsec(nsec, password, salt) ==
    [Salt |-> salt, EncryptedNsec |-> XorStream(nsec, scryptKey(password, salt))]

\* a decryption that derives its key without the stored salt
decryptNsecNoSalt(encKey, password) ==
    XorStream(encKey.EncryptedNsec, scryptKey(password, <<0>>))

\* decryptNsec: the XOR stream has no integrity check, so every password
\* "decrypts"; there is no error return for a wrong password
decryptNsec(encKey, password) ==
    XorStream(encKey.EncryptedNsec, scryptKey(password, encKey.Salt))

\* no call of encryptNsec has been made
NoCipher ==
    [pc |-> "none", nsec |-> <<>>, password |-> "",
     encKey |-> [Salt |-> <<>>, EncryptedNsec |-> <<>>], out |-> <<>>]

\* a file that does not exist (a file's text is the tuple of its fields)
NoFile == <<<<"absent">>>>

\* the text saveAccountEncryptedKey writes: hex(salt) ":" hex(ciphertext),
\* held as the tuple of its ":"-separated fields
KeyFileText(encKey) == <<encodeHex(encKey.Salt), encodeHex(encKey.EncryptedNsec)>>

\* the parse of loadAccountEncryptedKey
ParseKeyFile(text) ==
    [Salt |-> decodeHex(text[1]), EncryptedNsec |-> decodeHex(text[2])]

Tokens == {<<1, 2>>, <<2, 3>>}

\* createTrustSession, for the token rand.Read has drawn, at instant t
createTrustSession(nsec, token, t) ==
    [SessionToken |-> encodeHex(token),
     ExpiresAt |-> t + TrustPeriod,
     CreatedAt |-> t,
     EncryptedNsec |-> XorStream(nsec, token)]

\* the text saveAccountTrustSession writes: token:expires:created:hex(ct)
TrustFileText(session) ==
    <<session.SessionToken, FormatUnix(Unix(session.ExpiresAt)),
      FormatUnix(Unix(session.CreatedAt)), encodeHex(session.EncryptedNsec)>>

NoSession == [SessionToken |-> NoStr, ExpiresAt |-> -1, CreatedAt |-> -1,
              EncryptedNsec |-> NoStr]

\* loadAccountTrustSession: NoSession stands for every error return (no file,
\* not four fields, a timestamp that is no number, a ciphertext that is no hex)
loadAccountTrustSession(text) ==
    IF text = NoFile \/ Len(text) # 4 THEN NoSession
    ELSE IF parseInt64(text[2]) = -1 \/ parseInt64(text[3]) = -1 THEN NoSession
    ELSE IF decodeHex(text[4]) = BadHex THEN NoSession
    ELSE [SessionToken |-> text[1],
          ExpiresAt |-> FromUnix(parseInt64(text[2])),
          CreatedAt |-> FromUnix(parseInt64(text[3])),
          EncryptedNsec |-> decodeHex(text[4])]

\* a validity test that still accepts a session at the instant it expires
validThroughExpiry(session, t) == t <= session.ExpiresAt

\* isTrustSessionValid: time.Now().Before(session.ExpiresAt)
isTrustSessionValid(session, t) == t < session.ExpiresAt

\* length a session token must have for tokenBytes[:32] not to panic
tokenLen == 2

DecryptError == <<-1>>

DecryptPanic == <<-2>>

\* decryptTrustSessionNsec: DecryptError when the token is no hex string,
\* DecryptPanic when it decodes to fewer bytes than tokenBytes[:32] takes
decryptTrustSessionNsec(session) ==
    LET tokenBytes == decodeHex(session.SessionToken) IN
    IF tokenBytes = BadHex THEN DecryptError
    ELSE IF Len(tokenBytes) < tokenLen THEN DecryptPanic
    ELSE XorStream(session.EncryptedNsec, SubSeq(tokenBytes, 1, tokenLen))

\* -------------------------------------------------------------------- state

Handlers == {"h1", "h2"}

VARIABLES
    keyFile,      \* [Dirs -> text]: accounts/<npub>/keys.encrypted, or NoFile;
                  \* under "root" the legacy file <root>/keys.encrypted
    trustFile,    \* [Dirs -> text]: accounts/<npub>/trust_session, or NoFile;
                  \* under "root" the legacy file <root>/trust_session
    activeFile,   \* the text of active_account, or NoFile
    now,          \* time.Now(), in ticks
    status,       \* the daemon process: "down", "running", "exited", "crashed"
    privateKey,   \* Daemon.privateKey: the key object d.privateKey points to
    npub,         \* Daemon.npub
    pubkey,       \* Daemon.pubkey
    mu,           \* Daemon.mu: [readers: handlers holding RLock, writer: holder of Lock]
    shutdown,     \* shutdownDaemon has been started (signal or shutdown_daemon)
    conn,         \* [Handlers -> the goroutine handleConnection of one connection]
    accepted,     \* connections accepted so far
    outgoing,     \* the key object d.privateKey pointed to before the last install
    installs,     \* history: identity installs by switch_account so far
    lastOk,       \* history: the last switch_account success response written
    starts,       \* invocations of "noorsigner daemon" so far
    start,        \* history: what the last invocation of startDaemon did, and when
    migration,    \* history: what the last call of migrateToMultiAccount did
    endpoint,     \* the socket path and the daemon processes that use it
    cipher        \* one call of encryptNsec and of decryptNsec on its result

vars == <<keyFile, trustFile, activeFile, now, status, privateKey, npub, pubkey,
          mu, shutdown, conn, accepted, outgoing, installs, lastOk, starts, start, migration,
          endpoint, cipher>>

disk == <<keyFile, trustFile, activeFile>>

identity == <<privateKey, npub, pubkey>>

\* ------------------------------------------------------- account directory

\* the key whose account directory the path of npub names, "none" if it names none
DirKey(target) ==
    LET dir == getAccountDir(target) IN
    IF \E k \in Keys : dir = Npub(k) THEN CHOOSE k \in Keys : dir = Npub(k) ELSE "none"

\* accountExists: os.Stat of accounts/<npub>/keys.encrypted
accountExists(target) == DirKey(target) # "none" /\ keyFile[DirKey(target)] # NoFile

\* loadAccountEncryptedKey
loadAccountEncryptedKey(target) == ParseKeyFile(keyFile[DirKey(target)])

KeyOrder == <<"A", "B", "C">>

\* listAccounts: the npub1 directories under accounts/, in os.ReadDir's order
\* (sorted by name), each with the pubkey npubToPubkey derives from its name
listAccounts ==
    LET present == SelectSeq(KeyOrder, LAMBDA k : keyFile[k] # NoFile) IN
    [i \in 1..Len(present) |-> [Npub |-> Npub(present[i]),
                                Pubkey |-> npubToPubkey(Npub(present[i]))]]

\* the loop "for _, acc := range accounts { if acc.Pubkey == req.Pubkey ..."
FindByPubkey(pk) ==
    LET accounts == listAccounts
        hits == {i \in 1..Len(accounts) : accounts[i].Pubkey = pk} IN
    IF hits = {} THEN NoStr
    ELSE accounts[CHOOSE i \in hits : \A j \in hits : i <= j].Npub

\* targetNpub of switch_account and remove_account
ResolveTarget(req) ==
    IF req.npub = NoStr /\ req.pubkey # NoStr THEN FindByPubkey(req.pubkey) ELSE req.npub

\* loadActiveAccount: NoStr stands for the error "no active account set"
loadActiveAccount == IF activeFile = NoFile THEN NoStr ELSE activeFile[1]

\* saveActiveAccount: the text of active_account becomes npub
ActiveFileText(target) == <<target>>

\* ----------------------------------------------------------------- requests

\* A value of the map json.Unmarshal fills from event_json: its JSON type and
\* its contents. A number is held as <<whole part, tenths>>.
Missing == [type |-> "missing", v |-> <<>>]

Str(v) == [type |-> "string", v |-> v]

Num(whole, tenths) == [type |-> "number", v |-> <<whole, tenths>>]

Arr(v) == [type |-> "array", v |-> v]

EventFields == <<"pubkey", "created_at", "kind", "tags", "content">>

\* the Go type each field is asserted to have: string, float64, []interface{}
FieldType(f) ==
    CASE f \in {"pubkey", "content"} -> "string"
      [] f \in {"created_at", "kind"} -> "number"
      [] OTHER -> "array"

\* no event (the request is not sign_event, or event_json is not JSON)
NoEvent == [f \in {EventFields[i] : i \in 1..Len(EventFields)} |-> Missing]

\* a kind 1 note created at 1.5 whose pubkey field is pk
EventOf(pk) ==
    [pubkey |-> Str(pk), created_at |-> Num(1, 5), kind |-> Num(1, 0),
     tags |-> Arr(<<>>), content |-> Str(<<"hello">>)]

\* a value of another JSON type than the field f must have
WrongType(f) == IF FieldType(f) = "string" THEN Num(7, 0) ELSE Str(<<"7">>)

\* int64(x) of a float64
Int64(v) == v[1]

NoHash == <<>>

\* a hash function without the type assertions
createEventHashUnchecked(event) ==
    [err |-> "",
     hash |-> <<0, event.pubkey.v, event.created_at.v, event.kind.v, event.tags.v,
                event.content.v>>]

\* a hash function that puts the daemon's pubkey in the place of the event's
createEventHashOwnPubkey(event) ==
    IF \E i \in 1..Len(EventFields) :
          event[EventFields[i]].type # FieldType(EventFields[i])
    THEN [err |-> "missing or invalid field", hash |-> NoHash]
    ELSE [err |-> "",
          hash |-> <<0, pubkey, Int64(event.created_at.v), Int64(event.kind.v),
                     event.tags.v, event.content.v>>]

\* createEventHash after json.Unmarshal: the five type assertions in their
\* order, then SHA-256 of the serialization [0, pubkey, created_at, kind, tags,
\* content], held as the serialization itself
createEventHash(event) ==
    LET bad == {i \in 1..Len(EventFields) :
                   event[EventFields[i]].type # FieldType(EventFields[i])}
        first == CHOOSE i \in bad : \A j \in bad : i <= j
    IN IF bad # {}
       THEN [err |-> "missing or invalid " \o EventFields[first] \o " field",
             hash |-> NoHash]
       ELSE [err |-> "",
             hash |-> <<0, event.pubkey.v, Int64(event.created_at.v),
                        Int64(event.kind.v), event.tags.v, event.content.v>>]

\* id: the client's request id; the client of the n-th connection sends n
\* event: the map event_json unmarshals to (sign_event)
Req(method, n, pk, pw, nsec, setActive, args) ==
    [id |-> 0, method |-> method, npub |-> n, pubkey |-> pk, password |-> pw,
     nsec |-> nsec, setActive |-> setActive, args |-> args, event |-> NoEvent]

NoReq == Req("", NoStr, NoStr, "", NoStr, FALSE, FALSE)

CryptoMethods ==
    {"sign_event", "nip44_encrypt", "nip44_decrypt", "nip04_encrypt", "nip04_decrypt"}

\* args: the method's fields are present (for sign_event: event_json parses)
CryptoRequests ==
    {[Req(m, NoStr, NoStr, "", NoStr, FALSE, TRUE) EXCEPT
         !.event = IF m = "sign_event" THEN EventOf(PubkeyHex("A")) ELSE NoEvent] :
        m \in CryptoMethods}
    \cup {Req(m, NoStr, NoStr, "", NoStr, FALSE, FALSE) : m \in {"sign_event", "nip44_encrypt"}}

ReadRequests ==
    {Req(m, NoStr, NoStr, "", NoStr, FALSE, TRUE) :
        m \in {"get_npub", "get_active_account", "list_accounts", "bogus_method"}}

AddRequests ==
    {Req("add_account", NoStr, NoStr, "pwA", NsecOf("C"), sa, TRUE) : sa \in BOOLEAN}
    \cup {Req("add_account", NoStr, NoStr, "pw7", NsecOf("C"), FALSE, TRUE)}

SwitchRequests ==
    {Req("switch_account", Npub("A"), NoStr, "pwA", NoStr, FALSE, TRUE),
     Req("switch_account", Npub("B"), NoStr, "pwB", NoStr, FALSE, TRUE),
     Req("switch_account", Npub("B"), NoStr, "pwA", NoStr, FALSE, TRUE),
     Req("switch_account", NpubSlash("B"), NoStr, "pwB", NoStr, FALSE, TRUE),
     Req("switch_account", NoStr, PubkeyHex("B"), "pwB", NoStr, FALSE, TRUE),
     Req("switch_account", NoStr, NoStr, "pwB", NoStr, FALSE, TRUE)}

RemoveRequests ==
    {Req("remove_account", Npub("A"), NoStr, "pwA", NoStr, FALSE, TRUE),
     Req("remove_account", NpubSlash("A"), NoStr, "pwA", NoStr, FALSE, TRUE),
     Req("remove_account", Npub("B"), NoStr, "pwB", NoStr, FALSE, TRUE),
     Req("remove_account", Npub("B"), NoStr, "pwA", NoStr, FALSE, TRUE)}

\* sign_event for an event with the pubkey of A or of B, and for each event
\* that lacks one field or has one field of another type
SignRequests ==
    LET sign(e) == [Req("sign_event", NoStr, NoStr, "", NoStr, FALSE, TRUE)
                       EXCEPT !.event = e]
        good == EventOf(PubkeyHex("A"))
    IN {sign(EventOf(PubkeyHex(k))) : k \in {"A", "B"}}
       \cup {sign([good EXCEPT ![EventFields[i]] = Missing]) : i \in 1..Len(EventFields)}
       \cup {sign([good EXCEPT ![EventFields[i]] = WrongType(EventFields[i])]) :
                i \in 1..Len(EventFields)}

ShutdownRequests == {Req("shutdown_daemon", NoStr, NoStr, "", NoStr, FALSE, TRUE)}

Requests ==
    CryptoRequests \cup ReadRequests \cup AddRequests \cup SwitchRequests
    \cup RemoveRequests \cup ShutdownRequests

\* ---------------------------------------------------------------- responses

NoResp ==
    [id |-> 0, written |-> FALSE, error |-> "", signature |-> NoStr, signed |-> NoHash,
     npub |-> NoStr,
     pubkey |-> NoStr, success |-> FALSE, unlocked |-> FALSE,
     accounts |-> <<>>, activePubkey |-> NoStr]

ErrorResponse(e) == [NoResp EXCEPT !.written = TRUE, !.error = e]

SignResponse(sig) == [NoResp EXCEPT !.written = TRUE, !.signature = sig]

AccountActionResponse(pk, n) ==
    [NoResp EXCEPT !.written = TRUE, !.success = TRUE, !.pubkey = pk, !.npub = n]

RemoveActiveError == "cannot remove active account - switch to another account first"

\* the byte 'x' of the loop that rewrites the nsec variable
XChar == -3

\* a buffer whose bytes have all been overwritten with zeros
Zeroed(buf) == \A i \in 1..Len(buf) : buf[i] = 0

NoSwitch == [seq |-> 0, npub |-> NoStr, pubkey |-> NoStr, key |-> NoKey]

\* no call of migrateToMultiAccount yet
\*   n: calls so far; result: "nothing" (no legacy key), "cleanup" (accounts
\*   exist: the legacy files are removed), "ok", "error"
\*   pw, fail: the password given and the write that failed, if any
NoMigration == [n |-> 0, result |-> "none", pw |-> "", fail |-> "none"]

\* one connection's goroutine: its position, its request, its locals
\*   target, nsec, newKey, newPubkey: targetNpub, nsec, newPrivateKey, newPubkey
\*   buf: the bytes decryptNsec returned (the memory the nsec variable first named)
\*   pw: the bytes of req.Password
\*   held: the key object d.privateKey pointed to when RLock was acquired
\*   after, at: history (the last switch success written when the connection was
\*   accepted; the number of installs when the request was served)
IdleConn ==
    [pc |-> "idle", req |-> NoReq, target |-> NoStr, nsec |-> NoStr, buf |-> NoStr,
     pw |-> "", newKey |-> NoKey, newPubkey |-> NoStr, held |-> NoKey,
     resp |-> NoResp, after |-> NoSwitch, at |-> 0]

Running == status = "running"

\* the handler h is at position p
At(h, p) == Running /\ conn[h].pc = p

\* SignResponse{ID: req.ID, ...}
Reply(h, resp) == [resp EXCEPT !.id = conn[h].req.id]

\* write the response and return (defer conn.Close())
Finish(h, resp) ==
    conn' = [conn EXCEPT ![h].pc = "done", ![h].resp = Reply(h, resp),
                         ![h].at = installs]

\* d.mu.RLock() can be acquired
RLockFree == mu.writer = "none"

\* a Lock that waits for the writer only
LockIgnoresReaders == mu.writer = "none"

\* d.mu.Lock() can be acquired
LockFree == mu.writer = "none" /\ mu.readers = {}

\* ------------------------------------------------------------ accept, reads

\* the goroutine of h has returned (or none was started): a new connection
\* may be handed to it
Free(h) == conn[h].pc \in {"idle", "done"}

Before(h, g) == h = g \/ (h = "h1" /\ g = "h2")

\* serve: listener.Accept(), go d.handleConnection(conn); the request decodes.
\* The connection gets the first free goroutine; what returned goroutines
\* left behind is dropped.
Accept(h, r) ==
    /\ Running /\ ~shutdown
    /\ Free(h)
    /\ \A g \in Handlers : Free(g) => Before(h, g)
    /\ accepted < MaxConns
    /\ conn' = [g \in Handlers |->
                  IF g = h
                  THEN [IdleConn EXCEPT !.pc = "run",
                                        !.req = [r EXCEPT !.id = accepted + 1],
                                        !.pw = r.password,
                                        !.after = lastOk]
                  ELSE IF Free(g) THEN IdleConn ELSE conn[g]]
    /\ accepted' = accepted + 1
    /\ UNCHANGED <<disk, now, status, identity, mu, shutdown, outgoing, installs,
                   lastOk, starts, start, migration, endpoint, cipher>>

\* the same, when the daemon serves one connection at a time
AcceptSeq(r) ==
    /\ Running /\ ~shutdown
    /\ Free("h1")
    /\ accepted < MaxSeqConns
    /\ conn' = [conn EXCEPT !["h1"] =
                  [IdleConn EXCEPT !.pc = "run",
                                   !.req = [r EXCEPT !.id = accepted + 1],
                                   !.pw = r.password,
                                   !.after = lastOk]]
    /\ accepted' = accepted + 1
    /\ UNCHANGED <<disk, now, status, identity, mu, shutdown, outgoing, installs,
                   lastOk, starts, start, migration, endpoint, cipher>>

OnlyConn == <<disk, now, status, identity, mu, shutdown, accepted, outgoing,
              installs, lastOk, starts, start, migration, endpoint, cipher>>

\* case "get_npub"
GetNpub(h) ==
    /\ At(h, "run") /\ conn[h].req.method = "get_npub"
    /\ RLockFree
    /\ Finish(h, SignResponse(npub))
    /\ UNCHANGED OnlyConn

\* case "get_active_account"
GetActiveAccount(h) ==
    /\ At(h, "run") /\ conn[h].req.method = "get_active_account"
    /\ RLockFree
    /\ Finish(h, [NoResp EXCEPT !.written = TRUE, !.pubkey = pubkey, !.npub = npub,
                                !.unlocked = (privateKey # NoKey)])
    /\ UNCHANGED OnlyConn

\* case "list_accounts": the active pubkey is derived from the active_account file
ListAccounts(h) ==
    /\ At(h, "run") /\ conn[h].req.method = "list_accounts"
    /\ LET activeNpub == loadActiveAccount
           activePubkey == IF activeNpub # NoStr THEN npubToPubkey(activeNpub) ELSE NoStr
       IN Finish(h, [NoResp EXCEPT !.written = TRUE, !.accounts = listAccounts,
                                   !.activePubkey = activePubkey])
    /\ UNCHANGED OnlyConn

KnownMethods ==
    CryptoMethods \cup {"get_npub", "get_active_account", "list_accounts", "add_account",
                        "switch_account", "remove_account", "shutdown_daemon"}

\* default: "Unknown method: " + req.Method
UnknownMethod(h) ==
    /\ At(h, "run") /\ conn[h].req.method \notin KnownMethods
    /\ Finish(h, ErrorResponse("Unknown method: " \o conn[h].req.method))
    /\ UNCHANGED OnlyConn

\* ------------------------------------------------- signing and encryption

\* signEvent, nip44Encrypt, ...: the result names the key that produced it
\* signNostrEvent: the Schnorr signature, held as the key that made it (in
\* signature) and the hash it is over (in signed)
signNostrEvent(key, eventHash) ==
    [SignResponse(<<"sign_event", key.scalar>>) EXCEPT !.signed = eventHash]

\* d.signEvent and the response built from its result
signEvent(args, event, key) ==
    LET h == createEventHash(event)
    IN IF ~args THEN ErrorResponse("failed to hash event: invalid event JSON")
       ELSE IF h.err # "" THEN ErrorResponse("failed to hash event: " \o h.err)
       ELSE signNostrEvent(key, h.hash)

CryptoResult(method, args, event, key) ==
    IF method = "sign_event" THEN signEvent(args, event, key)
    ELSE SignResponse(<<method, key.scalar>>)

\* "plaintext and recipient_pubkey required": returned before the lock is taken
CryptoMissing(h) ==
    /\ At(h, "run")
    /\ conn[h].req.method \in CryptoMethods \ {"sign_event"}
    /\ ~conn[h].req.args
    /\ Finish(h, ErrorResponse("fields required"))
    /\ UNCHANGED OnlyConn

\* d.mu.RLock()
CryptoLock(h) ==
    /\ At(h, "run")
    /\ conn[h].req.method \in CryptoMethods
    /\ conn[h].req.method = "sign_event" \/ conn[h].req.args
    /\ RLockFree
    /\ mu' = [mu EXCEPT !.readers = @ \cup {h}]
    /\ conn' = [conn EXCEPT ![h].pc = "locked", ![h].held = privateKey]
    /\ UNCHANGED <<disk, now, status, identity, shutdown, accepted, outgoing,
                   installs, lastOk, starts, start, migration, endpoint, cipher>>

\* the operation on d.privateKey, then d.mu.RUnlock() and the response
CryptoRun(h) ==
    /\ At(h, "locked")
    /\ mu' = [mu EXCEPT !.readers = @ \ {h}]
    /\ Finish(h, CryptoResult(conn[h].req.method, conn[h].req.args, conn[h].req.event,
                              privateKey))
    /\ UNCHANGED <<disk, now, status, identity, shutdown, accepted, outgoing,
                   installs, lastOk, starts, start, migration, endpoint, cipher>>

\* -------------------------------------------------------------- add_account

\* case "add_account", up to the accountExists check
AddCheck(h) ==
    /\ At(h, "run") /\ conn[h].req.method = "add_account"
    /\ LET req == conn[h].req
           key == nsecToPrivateKey(req.nsec)
       IN IF req.nsec = NoStr \/ req.password = ""
          THEN Finish(h, ErrorResponse("nsec and password required"))
          ELSE IF key = NoKey
          THEN Finish(h, ErrorResponse("invalid nsec"))
          ELSE IF accountExists(privateKeyToNpub(key))
          THEN Finish(h, ErrorResponse("account already exists"))
          ELSE conn' = [conn EXCEPT ![h].pc = "add_save",
                                    ![h].target = privateKeyToNpub(key)]
    /\ UNCHANGED OnlyConn

\* encryptNsec, saveAccountEncryptedKey (MkdirAll, WriteFile)
AddSave(h) ==
    /\ At(h, "add_save")
    /\ \E salt \in Salts :
          keyFile' = [keyFile EXCEPT ![DirKey(conn[h].target)] =
              KeyFileText(encryptNsec(conn[h].req.nsec, conn[h].req.password, salt))]
    /\ conn' = [conn EXCEPT ![h].pc = "add_active"]
    /\ UNCHANGED <<trustFile, activeFile, now, status, identity, mu, shutdown, accepted,
                   outgoing, installs, lastOk, starts, start, migration, endpoint, cipher>>

\* if req.SetActive { saveActiveAccount(npub) }, then the success response
AddFinish(h) ==
    /\ At(h, "add_active")
    /\ activeFile' = IF conn[h].req.setActive THEN ActiveFileText(conn[h].target)
                     ELSE activeFile
    /\ Finish(h, AccountActionResponse(npubToPubkey(conn[h].target), conn[h].target))
    /\ UNCHANGED <<keyFile, trustFile, now, status, identity, mu, shutdown, accepted,
                   outgoing, installs, lastOk, starts, start, migration, endpoint, cipher>>

\* ----------------------------------------------------------- switch_account

\* keyBytes := d.privateKey.Serialize(); for i := range keyBytes { keyBytes[i] = 0 }
\* Serialize returns a fresh array, so the loop clears the copy: the key object
\* is what it was.
ClearKeyBytes(key) == key

\* the loop nsec = nsec[:i] + "x" + nsec[i+1:] : the variable names a new string
ClearNsecVariable(nsec) == [i \in 1..Len(nsec) |-> XChar]

\* case "switch_account", up to newPubkey: no state is written
SwitchPrepare(h) ==
    /\ At(h, "run") /\ conn[h].req.method = "switch_account"
    /\ LET req == conn[h].req
           targetNpub == ResolveTarget(req)
           encKey == loadAccountEncryptedKey(targetNpub)
           nsec == decryptNsec(encKey, req.password)
           newPrivateKey == nsecToPrivateKey(nsec)
       IN IF targetNpub = NoStr
          THEN Finish(h, ErrorResponse("pubkey or npub required"))
          ELSE IF req.password = ""
          THEN Finish(h, ErrorResponse("password required"))
          ELSE IF ~accountExists(targetNpub)
          THEN Finish(h, ErrorResponse("account not found"))
          ELSE IF encKey.Salt = BadHex \/ encKey.EncryptedNsec = BadHex
          THEN Finish(h, ErrorResponse("failed to load account"))
          ELSE IF newPrivateKey = NoKey
          THEN conn' = [conn EXCEPT ![h].pc = "done", ![h].at = installs,
                                    ![h].buf = nsec, ![h].nsec = nsec,
                                    ![h].resp = Reply(h, ErrorResponse("corrupted key file"))]
          ELSE conn' = [conn EXCEPT ![h].pc = "sw_trust", ![h].target = targetNpub,
                                    ![h].buf = nsec, ![h].nsec = nsec,
                                    ![h].newKey = newPrivateKey,
                                    ![h].newPubkey = npubToPubkey(targetNpub)]
    /\ UNCHANGED OnlyConn

\* createTrustSession, saveAccountTrustSession (its error is dropped: the write
\* fails when the account directory is gone), then the nsec variable is rewritten
SwitchTrust(h) ==
    /\ At(h, "sw_trust")
    /\ \E token \in Tokens :
          LET session == createTrustSession(conn[h].nsec, token, now)
              k == DirKey(conn[h].target)
          IN trustFile' = IF k # "none" /\ keyFile[k] # NoFile
                          THEN [trustFile EXCEPT ![k] = TrustFileText(session)]
                          ELSE trustFile
    /\ conn' = [conn EXCEPT ![h].pc = "sw_lock",
                            ![h].nsec = ClearNsecVariable(conn[h].nsec)]
    /\ UNCHANGED <<keyFile, activeFile, now, status, identity, mu, shutdown, accepted,
                   outgoing, installs, lastOk, starts, start, migration, endpoint, cipher>>

\* d.mu.Lock(); the old key's bytes are "cleared"; d.privateKey = newPrivateKey
SwitchLock(h) ==
    /\ At(h, "sw_lock")
    /\ LockFree
    /\ mu' = [mu EXCEPT !.writer = h]
    /\ outgoing' = IF privateKey # NoKey THEN ClearKeyBytes(privateKey) ELSE privateKey
    /\ privateKey' = conn[h].newKey
    /\ conn' = [conn EXCEPT ![h].pc = "sw_ids"]
    /\ UNCHANGED <<disk, now, status, npub, pubkey, shutdown, accepted, installs,
                   lastOk, starts, start, migration, endpoint, cipher>>

\* an install that keeps the lock
SwitchInstallKeepsLock(h) ==
    /\ At(h, "sw_ids")
    /\ npub' = conn[h].target
    /\ pubkey' = conn[h].newPubkey
    /\ installs' = installs + 1
    /\ conn' = [conn EXCEPT ![h].pc = "sw_save", ![h].at = installs + 1]
    /\ UNCHANGED <<disk, now, status, privateKey, mu, shutdown, accepted, outgoing,
                   lastOk, starts, start, migration, endpoint, cipher>>

\* d.npub = targetNpub; d.pubkey = newPubkey; d.mu.Unlock()
SwitchInstall(h) ==
    /\ At(h, "sw_ids")
    /\ npub' = conn[h].target
    /\ pubkey' = conn[h].newPubkey
    /\ mu' = [mu EXCEPT !.writer = "none"]
    /\ installs' = installs + 1
    /\ conn' = [conn EXCEPT ![h].pc = "sw_save", ![h].at = installs + 1]
    /\ UNCHANGED <<disk, now, status, privateKey, shutdown, accepted, outgoing,
                   lastOk, starts, start, migration, endpoint, cipher>>

\* saveActiveAccount(targetNpub), then the success response
SwitchSave(h) ==
    /\ At(h, "sw_save")
    /\ activeFile' = ActiveFileText(conn[h].target)
    /\ conn' = [conn EXCEPT ![h].pc = "done",
                   ![h].resp = Reply(h, AccountActionResponse(conn[h].newPubkey,
                                                              conn[h].target))]
    /\ lastOk' = [seq |-> conn[h].at, npub |-> conn[h].target,
                  pubkey |-> conn[h].newPubkey, key |-> conn[h].newKey]
    /\ UNCHANGED <<keyFile, trustFile, now, status, identity, mu, shutdown, accepted,
                   outgoing, installs, starts, start, migration, endpoint, cipher>>

\* ----------------------------------------------------------- remove_account

\* case "remove_account", up to the password check (decryptNsec has no error)
RemovePrepare(h) ==
    /\ At(h, "run") /\ conn[h].req.method = "remove_account"
    /\ LET req == conn[h].req
           targetNpub == ResolveTarget(req)
           encKey == loadAccountEncryptedKey(targetNpub)
       IN IF targetNpub = NoStr
          THEN Finish(h, ErrorResponse("pubkey or npub required"))
          ELSE IF req.password = ""
          THEN Finish(h, ErrorResponse("password required"))
          ELSE IF ~accountExists(targetNpub)
          THEN Finish(h, ErrorResponse("account not found"))
          ELSE IF encKey.Salt = BadHex \/ encKey.EncryptedNsec = BadHex
          THEN Finish(h, ErrorResponse("failed to load account"))
          ELSE conn' = [conn EXCEPT ![h].pc = "rm_check", ![h].target = targetNpub,
                                    ![h].buf = decryptNsec(encKey, req.password)]
    /\ UNCHANGED OnlyConn

\* isCurrentAccount := d.npub == targetNpub, under RLock
RemoveCheck(h) ==
    /\ At(h, "rm_check")
    /\ RLockFree
    /\ IF npub = conn[h].target
       THEN Finish(h, ErrorResponse(RemoveActiveError))
       ELSE conn' = [conn EXCEPT ![h].pc = "rm_remove"]
    /\ UNCHANGED OnlyConn

\* removeAccount: os.RemoveAll of the directory, and active_account is removed
\* when its text equals npub
\* a removal that leaves the account's trust_session behind
RemoveRunKeepsTrust(h) ==
    /\ At(h, "rm_remove")
    /\ LET k == DirKey(conn[h].target) IN
       IF k = "none" \/ keyFile[k] = NoFile
       THEN /\ Finish(h, ErrorResponse("failed to remove account"))
            /\ UNCHANGED disk
       ELSE /\ keyFile' = [keyFile EXCEPT ![k] = NoFile]
            /\ activeFile' = IF loadActiveAccount = conn[h].target THEN NoFile
                             ELSE activeFile
            /\ Finish(h, [NoResp EXCEPT !.written = TRUE, !.success = TRUE])
            /\ UNCHANGED trustFile
    /\ UNCHANGED <<now, status, identity, mu, shutdown, accepted, outgoing, installs,
                   lastOk, starts, start, migration, endpoint, cipher>>

RemoveRun(h) ==
    /\ At(h, "rm_remove")
    /\ LET k == DirKey(conn[h].target) IN
       IF k = "none" \/ keyFile[k] = NoFile
       THEN /\ Finish(h, ErrorResponse("failed to remove account"))
            /\ UNCHANGED disk
       ELSE /\ keyFile' = [keyFile EXCEPT ![k] = NoFile]
            /\ trustFile' = [trustFile EXCEPT ![k] = NoFile]
            /\ activeFile' = IF loadActiveAccount = conn[h].target THEN NoFile
                             ELSE activeFile
            /\ Finish(h, [NoResp EXCEPT !.written = TRUE, !.success = TRUE])
    /\ UNCHANGED <<now, status, identity, mu, shutdown, accepted, outgoing, installs,
                   lastOk, starts, start, migration, endpoint, cipher>>

\* ------------------------------------------------------------------ shutdown

\* case "shutdown_daemon": the response, then go func() { d.shutdownDaemon(); os.Exit(0) }
ShutdownRequest(h) ==
    /\ At(h, "run") /\ conn[h].req.method = "shutdown_daemon"
    /\ Finish(h, SignResponse(<<"success">>))
    /\ shutdown' = TRUE
    /\ UNCHANGED <<disk, now, status, identity, mu, accepted, outgoing, installs,
                   lastOk, starts, start, migration, endpoint, cipher>>

\* SIGINT or SIGTERM: go func() { <-sigChan; d.shutdownDaemon(); os.Exit(0) }
Signal ==
    /\ Running /\ ~shutdown
    /\ shutdown' = TRUE
    /\ UNCHANGED <<disk, now, status, identity, mu, conn, accepted, outgoing, installs,
                   lastOk, starts, start, migration, endpoint, cipher>>

\* shutdownDaemon from d.mu.Lock() on, then os.Exit(0)
Exit ==
    /\ Running /\ shutdown
    /\ LockFree
    /\ privateKey' = IF privateKey # NoKey THEN ClearKeyBytes(privateKey) ELSE privateKey
    /\ status' = "exited"
    /\ UNCHANGED <<disk, now, npub, pubkey, mu, shutdown, conn, accepted, outgoing,
                   installs, lastOk, starts, start, migration, endpoint, cipher>>

\* ---------------------------------------------------------------- endpoint

\* the processes that run the command "daemon" (the forked children)
Procs == {"p1", "p2"}

\* One process:
\*   pc         "off", then createListener ("remove", "listen", "chmod"), then
\*              "serve" (the accept loop); "failed" (serve returned an error,
\*              os.Exit(1)), "exited" (status 0), "killed"
\*   listening  its listener is open
\*   chan       values in the buffer of d.shutdown
\*   g          the goroutine that runs shutdownDaemon and os.Exit(0): "none",
\*              then before "send", "close", "cleanup", "zero", "exit"
\*   trigger    what started that goroutine: "signal" or "request"
\*   responded  the response of shutdown_daemon has been written
\*   removed    cleanupListener has run
\*   zeroed     the loop over keyBytes has run
IdleProc ==
    [pc |-> "off", listening |-> FALSE, chan |-> 0, g |-> "none", trigger |-> "none",
     responded |-> FALSE, removed |-> FALSE, zeroed |-> FALSE]

\* path: the process whose socket the file at the socket path is, "none" if
\* there is no file; mode: the file's mode, "umask" for 0777 &^ umask
NoEndpoint == [path |-> "none", mode |-> "none", proc |-> [p \in Procs |-> IdleProc]]

\* the endpoint of a daemon that p1 has started
ServedEndpoint ==
    [path |-> "p1", mode |-> "0600",
     proc |-> [p \in Procs |-> IF p = "p1" THEN [IdleProc EXCEPT !.pc = "serve",
                                                                !.listening = TRUE]
                                ELSE IdleProc]]

\* -------------------------------------------------- the daemon, once started

TokenA == <<1, 2>>

\* the store after add-account of A and of B, with A active, and the daemon the
\* command "daemon" has started with A's password at instant 0
Init ==
    /\ keyFile = [k \in Dirs |->
          IF k \in {"A", "B"} THEN KeyFileText(encryptNsec(NsecOf(k), PwOf(k), <<0>>))
          ELSE NoFile]
    /\ trustFile = [k \in Dirs |->
          IF k = "A" THEN TrustFileText(createTrustSession(NsecOf("A"), TokenA, 0))
          ELSE NoFile]
    /\ activeFile = ActiveFileText(Npub("A"))
    /\ now = 0
    /\ status = "running"
    /\ privateKey = nsecToPrivateKey(NsecOf("A"))
    /\ npub = Npub("A")
    /\ pubkey = npubToPubkey(Npub("A"))
    /\ mu = [readers |-> {}, writer |-> "none"]
    /\ shutdown = FALSE
    /\ conn = [h \in Handlers |-> IdleConn]
    /\ accepted = 0
    /\ outgoing = NoKey
    /\ installs = 0
    /\ lastOk = NoSwitch
    /\ starts = 1
    /\ start = [pw |-> "pwA", prompted |-> TRUE, found |-> "absent", outcome |-> "serve",
                account |-> "A", buf |-> NsecOf("A"), at |-> 0, expires |-> -1]
    /\ migration = NoMigration
    /\ endpoint = ServedEndpoint
    /\ cipher = NoCipher

\* every step of the goroutine of connection h
Handle(h) ==
    \/ GetNpub(h)
    \/ GetActiveAccount(h)
    \/ ListAccounts(h)
    \/ UnknownMethod(h)
    \/ CryptoMissing(h)
    \/ CryptoLock(h)
    \/ CryptoRun(h)
    \/ AddCheck(h)
    \/ AddSave(h)
    \/ AddFinish(h)
    \/ SwitchPrepare(h)
    \/ SwitchTrust(h)
    \/ SwitchLock(h)
    \/ SwitchInstall(h)
    \/ SwitchSave(h)
    \/ RemovePrepare(h)
    \/ RemoveCheck(h)
    \/ RemoveRun(h)
    \/ ShutdownRequest(h)

Next ==
    \/ \E h \in Handlers, r \in Requests : Accept(h, r)
    \/ \E h \in Handlers : Handle(h)
    \/ Signal
    \/ Exit

Spec == Init /\ [][Next]_vars

\* the daemon serving its connections one after the other
\* what the clients of the one-at-a-time daemon send: the requests above, and
\* a switch and a remove that name B by its pubkey in upper case
SeqRequests ==
    Requests
    \cup {Req(m, NoStr, UpperHex(PubkeyHex("B")), "pwB", NoStr, FALSE, TRUE) :
            m \in {"switch_account", "remove_account"}}

SeqNext ==
    \/ \E r \in SeqRequests : AcceptSeq(r)
    \/ Handle("h1")
    \/ Signal
    \/ Exit

SeqSpec == Init /\ [][SeqNext]_vars

\* ------------------------------------------------------------------ start-up

\* what startDaemon finds in trust_session of the account of key k:
\*   "absent"         no file
\*   "unparsable"     loadAccountTrustSession returns an error
\*   "expired"        the session parses and isTrustSessionValid is false
\*   "undecryptable"  decryptTrustSessionNsec returns an error or panics
\*   "invalid_nsec"   the decrypted text is no nsec
\*   "good"           the decrypted text is an nsec
FoundSession(k) ==
    LET session == loadAccountTrustSession(trustFile[k]) IN
    IF trustFile[k] = NoFile THEN "absent"
    ELSE IF session = NoSession THEN "unparsable"
    ELSE IF ~isTrustSessionValid(session, now) THEN "expired"
    ELSE IF decryptTrustSessionNsec(session) \in {DecryptError, DecryptPanic} THEN "undecryptable"
    ELSE IF nsecToPrivateKey(decryptTrustSessionNsec(session)) = NoKey THEN "invalid_nsec"
    ELSE "good"

\* startDaemon, from loadActiveAccount to the point where the daemon would serve,
\* with the password the terminal gives and the token rand.Read draws.
\*   outcome: "serve", "return" (an error return), "panic"
\*   buf: the bytes of the decrypted nsec as the run leaves them in memory
\*   expires: ExpiresAt of the session loadAccountTrustSession returned, -1 if none
\* a start-up that saves a new session on the trust-session branch as well
TrustAfterUnlockRenews(useTrust, k, session) ==
    [trustFile EXCEPT ![k] = TrustFileText(session)]

\* the trust_session files after the unlock of startDaemon: the branch of a
\* valid session writes nothing, the password branch saves a new session
TrustAfterUnlock(useTrust, k, session) ==
    IF useTrust THEN trustFile
    ELSE [trustFile EXCEPT ![k] = TrustFileText(session)]

StartResult(pw, token) ==
    LET activeNpub == IF loadActiveAccount # NoStr THEN loadActiveAccount
                      ELSE listAccounts[1].Npub
        active == IF loadActiveAccount # NoStr THEN activeFile
                  ELSE ActiveFileText(activeNpub)
        k == DirKey(activeNpub)
        encryptedKey == loadAccountEncryptedKey(activeNpub)
        trustSession == loadAccountTrustSession(trustFile[k])
        useTrust == trustSession # NoSession /\ isTrustSessionValid(trustSession, now)
        cached == decryptTrustSessionNsec(trustSession)
        nsec == IF useTrust THEN cached ELSE decryptNsec(encryptedKey, pw)
        session == createTrustSession(nsec, token, now)
        trust == TrustAfterUnlock(useTrust, k, session)
        key == nsecToPrivateKey(nsec)
        base == [outcome |-> "return", prompted |-> FALSE, found |-> "absent",
                 account |-> k, trust |-> trustFile, active |-> active,
                 key |-> NoKey, npub |-> NoStr, pubkey |-> NoStr, buf |-> NoStr,
                 expires |-> IF k = "none" THEN -1 ELSE trustSession.ExpiresAt]
    IN IF k = "none" \/ keyFile[k] = NoFile THEN base
       ELSE IF encryptedKey.Salt = BadHex \/ encryptedKey.EncryptedNsec = BadHex
       THEN [base EXCEPT !.found = FoundSession(k)]
       ELSE IF useTrust /\ cached = DecryptPanic
       THEN [base EXCEPT !.found = FoundSession(k), !.outcome = "panic"]
       ELSE IF useTrust /\ cached = DecryptError
       THEN [base EXCEPT !.found = FoundSession(k),
                         !.trust = [trustFile EXCEPT ![k] = NoFile]]
       ELSE IF key = NoKey
       THEN [base EXCEPT !.found = FoundSession(k), !.prompted = ~useTrust,
                         !.trust = trust, !.buf = nsec]
       ELSE IF npubToPubkey(activeNpub) = NoStr
       THEN [base EXCEPT !.found = FoundSession(k), !.prompted = ~useTrust,
                         !.trust = trust, !.buf = nsec]
       ELSE [base EXCEPT !.found = FoundSession(k), !.prompted = ~useTrust,
                         !.trust = trust, !.buf = nsec, !.outcome = "serve",
                         !.key = key, !.npub = activeNpub,
                         !.pubkey = npubToPubkey(activeNpub)]

Stopped == status \in {"down", "exited", "crashed"}

\* "noorsigner daemon" from a terminal: main finds no legacy key to migrate and
\* calls startDaemon, which runs up to the fork.  On success
\* the process re-executes itself with NOORSIGNER_FORKED=1 and exits.  (With no
\* account at all startDaemon runs the interactive addAccount first: the store
\* of this specification always holds an account.)
StartDaemon(pw) ==
    /\ Stopped
    /\ starts < MaxStarts
    /\ keyFile["root"] = NoFile
    /\ loadActiveAccount # NoStr \/ Len(listAccounts) > 0
    /\ \E token \in Tokens :
          LET r == StartResult(pw, token) IN
          /\ trustFile' = r.trust
          /\ activeFile' = r.active
          /\ status' = CASE r.outcome = "serve" -> "forked"
                          [] r.outcome = "panic" -> "crashed"
                          [] OTHER -> "down"
          /\ start' = [pw |-> pw, prompted |-> r.prompted, found |-> r.found,
                       outcome |-> r.outcome, account |-> r.account, buf |-> r.buf,
                       at |-> now, expires |-> r.expires]
    /\ starts' = starts + 1
    /\ privateKey' = NoKey /\ npub' = NoStr /\ pubkey' = NoStr
    /\ shutdown' = FALSE
    /\ UNCHANGED <<keyFile, now, mu, conn, accepted, outgoing, installs, lastOk,
                   migration, endpoint, cipher>>

\* the forked process: startDaemon again, without a terminal, up to daemon.serve()
StartChild ==
    /\ status = "forked"
    /\ \E token \in Tokens :
          LET r == StartResult("", token) IN
          /\ trustFile' = r.trust
          /\ activeFile' = r.active
          /\ status' = CASE r.outcome = "serve" -> "running"
                          [] r.outcome = "panic" -> "crashed"
                          [] OTHER -> "down"
          /\ privateKey' = r.key /\ npub' = r.npub /\ pubkey' = r.pubkey
    /\ UNCHANGED <<keyFile, now, mu, shutdown, conn, accepted, outgoing, installs,
                   lastOk, starts, start, migration, endpoint, cipher>>

\* time passes (the fork takes no time)
Tick ==
    /\ status # "forked"
    /\ now < MaxTime
    /\ now' = now + 1
    /\ UNCHANGED <<disk, status, identity, mu, shutdown, conn, accepted, outgoing,
                   installs, lastOk, starts, start, migration, endpoint, cipher>>

DamageKinds == {"truncated", "token_not_hex", "token_short", "ciphertext"}

\* the text of a trust_session file after damage of one kind
Damaged(text, kind) ==
    CASE kind = "truncated" -> <<text[1]>>
      [] kind = "token_not_hex" -> [text EXCEPT ![1] = <<"g", "g">>]
      [] kind = "token_short" -> [text EXCEPT ![1] = <<"1">>]
      [] OTHER -> [text EXCEPT ![4] = [i \in 1..Len(text[4]) |-> "0"]]

\* the environment: the trust_session file of account A is damaged on disk
\* while no daemon runs
Damage(kind) ==
    /\ Stopped
    /\ trustFile["A"] # NoFile /\ Len(trustFile["A"]) = 4
    /\ trustFile' = [trustFile EXCEPT !["A"] = Damaged(trustFile["A"], kind)]
    /\ UNCHANGED <<keyFile, activeFile, now, status, identity, mu, shutdown, conn,
                   accepted, outgoing, installs, lastOk, starts, start, migration,
                   endpoint, cipher>>

\* the store after add-account of A and of B; no daemon has been started
StartInit ==
    /\ keyFile = [k \in Dirs |->
          IF k \in {"A", "B"} THEN KeyFileText(encryptNsec(NsecOf(k), PwOf(k), <<0>>))
          ELSE NoFile]
    /\ trustFile = [k \in Dirs |-> NoFile]
    /\ activeFile \in {NoFile, ActiveFileText(Npub("A"))}
    /\ now = 0
    /\ status = "down"
    /\ privateKey = NoKey
    /\ npub = NoStr
    /\ pubkey = NoStr
    /\ mu = [readers |-> {}, writer |-> "none"]
    /\ shutdown = FALSE
    /\ conn = [h \in Handlers |-> IdleConn]
    /\ accepted = 0
    /\ outgoing = NoKey
    /\ installs = 0
    /\ lastOk = NoSwitch
    /\ starts = 0
    /\ start = [pw |-> "", prompted |-> FALSE, found |-> "absent", outcome |-> "none",
                account |-> "none", buf |-> NoStr, at |-> 0, expires |-> -1]
    /\ migration = NoMigration
    /\ endpoint = NoEndpoint
    /\ cipher = NoCipher

StartNext ==
    \/ \E pw \in Passwords : StartDaemon(pw)
    \/ StartChild
    \/ Tick
    \/ \E kind \in DamageKinds : Damage(kind)
    \/ Signal
    \/ Exit

StartSpec == StartInit /\ [][StartNext]_vars

\* ----------------------------------------------------------------- migration

\* strconv.ParseInt(s, 10, 64) on a timestamp field: the empty string is an error
strconvParseInt(s) == IF s = <<>> THEN -1 ELSE parseInt64(s)

\* loadTrustSession: the legacy <root>/trust_session, NoSession for every error
loadTrustSession(text) ==
    IF text = NoFile \/ Len(text) # 4 THEN NoSession
    ELSE IF strconvParseInt(text[2]) = -1 \/ strconvParseInt(text[3]) = -1 THEN NoSession
    ELSE IF decodeHex(text[4]) = BadHex THEN NoSession
    ELSE [SessionToken |-> text[1],
          ExpiresAt |-> FromUnix(strconvParseInt(text[2])),
          CreatedAt |-> FromUnix(strconvParseInt(text[3])),
          EncryptedNsec |-> decodeHex(text[4])]

BadKey == [Salt |-> BadHex, EncryptedNsec |-> BadHex]

\* loadEncryptedKey: the legacy <root>/keys.encrypted; BadKey stands for every
\* error return (no separator, salt or ciphertext that is no hex string)
loadEncryptedKey(text) ==
    IF text = NoFile \/ Len(text) # 2 THEN BadKey
    ELSE IF decodeHex(text[1]) = BadHex \/ decodeHex(text[2]) = BadHex THEN BadKey
    ELSE ParseKeyFile(text)

\* the writes of a migration in an order that removes the legacy files early
MigrateStepsRemoveEarly == <<"save_key", "remove_old", "save_trust", "save_active">>

\* the writes of migrateToMultiAccount once the nsec is decrypted, in their order
MigrateSteps == <<"save_key", "save_trust", "save_active", "remove_old">>

\* one write of migrateToMultiAccount on the files st, for the account target
MigrateStep(step, st, target, encKey) ==
    LET k == DirKey(target) IN
    CASE step = "save_key" -> [st EXCEPT !.key[k] = KeyFileText(encKey)]
      [] step = "save_trust" ->
            IF /\ st.trust["root"] # NoFile
               /\ loadTrustSession(st.trust["root"]) # NoSession
               /\ st.key[k] # NoFile
            THEN [st EXCEPT !.trust[k] = TrustFileText(loadTrustSession(st.trust["root"]))]
            ELSE st
      [] step = "save_active" -> [st EXCEPT !.active = ActiveFileText(target)]
      [] OTHER -> [st EXCEPT !.key["root"] = NoFile, !.trust["root"] = NoFile]

\* the writes in order; the write named fail returns its error (an error of
\* saveAccountTrustSession or of os.Remove is dropped by the code)
RECURSIVE RunMigrateSteps(_, _, _, _, _)
RunMigrateSteps(steps, st, fail, target, encKey) ==
    IF steps = <<>> THEN st
    ELSE IF Head(steps) = fail THEN [st EXCEPT !.result = "error"]
    ELSE RunMigrateSteps(Tail(steps), MigrateStep(Head(steps), st, target, encKey),
                         fail, target, encKey)

\* what readPassword returns: a password, or an error
PasswordReads == Passwords \cup {"read_error"}

MigrateFailures == {"none", "save_key", "save_active"}

\* migrateToMultiAccount, for the password the terminal gives and the write
\* that fails: the files it leaves and its result
MigrateResult(pw, fail) ==
    LET st == [key |-> keyFile, trust |-> trustFile, active |-> activeFile,
               result |-> "ok"]
        encKey == loadEncryptedKey(keyFile["root"])
        privateKey_ == nsecToPrivateKey(decryptNsec(encKey, pw))
    IN IF keyFile["root"] = NoFile THEN [st EXCEPT !.result = "nothing"]
       ELSE IF Len(listAccounts) > 0
       THEN [st EXCEPT !.key["root"] = NoFile, !.trust["root"] = NoFile,
                       !.result = "cleanup"]
       ELSE IF encKey = BadKey THEN [st EXCEPT !.result = "error"]
       ELSE IF pw = "read_error" THEN [st EXCEPT !.result = "error"]
       ELSE IF privateKey_ = NoKey THEN [st EXCEPT !.result = "error"]
       ELSE RunMigrateSteps(MigrateSteps, st, fail, privateKeyToNpub(privateKey_), encKey)

\* any command of the program from a terminal while no daemon runs: main calls
\* migrateToMultiAccount first
Migrate(pw, fail) ==
    /\ Stopped
    /\ migration.n < MaxMigrations
    /\ LET r == MigrateResult(pw, fail) IN
          /\ keyFile' = r.key
          /\ trustFile' = r.trust
          /\ activeFile' = r.active
          /\ migration' = [n |-> migration.n + 1, result |-> r.result, pw |-> pw,
                           fail |-> fail]
    /\ UNCHANGED <<now, status, identity, mu, shutdown, conn, accepted, outgoing,
                   installs, lastOk, starts, start, endpoint, cipher>>

\* noorsigner add-account from a terminal, in an invocation whose
\* migrateToMultiAccount returned an error before it wrote anything (main only
\* prints a warning): addAccount saves the key of nsec k under
\* accounts/<npub>/ and makes it the active account
AddAccountCmd(k, salt) ==
    /\ Stopped
    /\ \E pw \in PasswordReads :
          LET r == MigrateResult(pw, "none") IN
          r.result = "error" /\ r.key = keyFile /\ r.active = activeFile
    /\ nsecToPrivateKey(NsecOf(k)) # NoKey
    /\ ~accountExists(privateKeyToNpub(nsecToPrivateKey(NsecOf(k))))
    /\ PwLen(PwOf(k)) >= MinPasswordLen
    /\ keyFile' = [keyFile EXCEPT ![k] = KeyFileText(encryptNsec(NsecOf(k), PwOf(k), salt))]
    /\ activeFile' = ActiveFileText(privateKeyToNpub(nsecToPrivateKey(NsecOf(k))))
    /\ UNCHANGED <<trustFile, now, status, identity, mu, shutdown, conn, accepted,
                   outgoing, installs, lastOk, starts, start, migration, endpoint, cipher>>

\* the legacy keys.encrypted of key k, and texts loadEncryptedKey rejects
LegacyKeys ==
    {KeyFileText(encryptNsec(NsecOf(k), PwOf(k), salt)) : k \in {"A", "B"}, salt \in Salts}
    \cup {<<<<"0">>>>, <<<<"g">>, <<"1", "2", "3">>>>}

\* no legacy trust_session, one saveTrustSession wrote, one that does not parse
LegacyTrusts(keyText) ==
    {NoFile, <<<<"1", "2">>>>}
    \cup (IF loadEncryptedKey(keyText) = BadKey THEN {}
          ELSE {TrustFileText(createTrustSession(
                    decryptNsec(loadEncryptedKey(keyText), p), TokenA, 0)) :
                    p \in {q \in Passwords :
                        nsecToPrivateKey(decryptNsec(loadEncryptedKey(keyText), q)) # NoKey}})

\* a store in the single-account format; accounts/ is empty, or (a store that
\* was migrated by hand) already holds the account of A
MigrateInit ==
    /\ \E keyText \in LegacyKeys, hasA \in BOOLEAN :
          /\ keyFile = [k \in Dirs |->
                IF k = "root" THEN keyText
                ELSE IF k = "A" /\ hasA
                THEN KeyFileText(encryptNsec(NsecOf("A"), PwOf("A"), <<0>>))
                ELSE NoFile]
          /\ trustFile \in {[k \in Dirs |-> IF k = "root" THEN t ELSE NoFile] :
                              t \in LegacyTrusts(keyText)}
          /\ activeFile = IF hasA THEN ActiveFileText(Npub("A")) ELSE NoFile
    /\ now = 0
    /\ status = "down"
    /\ privateKey = NoKey
    /\ npub = NoStr
    /\ pubkey = NoStr
    /\ mu = [readers |-> {}, writer |-> "none"]
    /\ shutdown = FALSE
    /\ conn = [h \in Handlers |-> IdleConn]
    /\ accepted = 0
    /\ outgoing = NoKey
    /\ installs = 0
    /\ lastOk = NoSwitch
    /\ starts = 0
    /\ start = [pw |-> "", prompted |-> FALSE, found |-> "absent", outcome |-> "none",
                account |-> "none", buf |-> NoStr, at |-> 0, expires |-> -1]
    /\ migration = NoMigration
    /\ endpoint = NoEndpoint
    /\ cipher = NoCipher

\* commands run one after the other on such a store; the daemon is started and stopped
MigrateNext ==
    \/ \E pw \in PasswordReads, fail \in MigrateFailures : Migrate(pw, fail)
    \/ \E k \in {"B", "C"} : AddAccountCmd(k, <<0>>)
    \/ \E pw \in Passwords : StartDaemon(pw)
    \/ StartChild
    \/ Signal
    \/ Exit

MigrateSpec == MigrateInit /\ [][MigrateNext]_vars


\* -------------------------------------------------------------- signing only

\* the clients send sign_event requests and a switch to B
SignClientRequests ==
    SignRequests \cup {Req("switch_account", Npub("B"), NoStr, "pwB", NoStr, FALSE, TRUE)}

SignNext ==
    \/ \E h \in Handlers, r \in SignClientRequests : Accept(h, r)
    \/ \E h \in Handlers : CryptoLock(h)
    \/ \E h \in Handlers : CryptoRun(h)
    \/ \E h \in Handlers : SwitchPrepare(h)
    \/ \E h \in Handlers : SwitchTrust(h)
    \/ \E h \in Handlers : SwitchLock(h)
    \/ \E h \in Handlers : SwitchInstall(h)
    \/ \E h \in Handlers : SwitchSave(h)
    \/ Signal
    \/ Exit

SignSpec == Init /\ [][SignNext]_vars


\* ------------------------------------------- the endpoint and its processes

OnlyEndpoint == <<disk, now, status, identity, mu, shutdown, conn, accepted, outgoing,
                  installs, lastOk, starts, start, migration, cipher>>

\* the process p is in its accept loop with its shutdown goroutine at g
InShutdown(p, g) == endpoint.proc[p].pc = "serve" /\ endpoint.proc[p].g = g

\* a client that dials the socket path reaches the process p
Connectable(p) == endpoint.path = p /\ endpoint.proc[p].listening

\* syscall.Unlink(path), os.Remove(socketPath): whatever file is at the path
Unlink(e) == [e EXCEPT !.path = "none", !.mode = "none"]

\* startDaemon in the forked child reaches daemon.serve()
ServeStart(p) ==
    /\ endpoint.proc[p].pc = "off"
    /\ endpoint' = [endpoint EXCEPT !.proc[p].pc = "remove"]
    /\ UNCHANGED OnlyEndpoint

\* createListener: os.Remove(socketPath)
RemoveExisting(p) ==
    /\ endpoint.proc[p].pc = "remove"
    /\ endpoint' = Unlink([endpoint EXCEPT !.proc[p].pc = "listen"])
    /\ UNCHANGED OnlyEndpoint

\* createListener: net.Listen("unix", socketPath); on an error serve returns it
\* and startDaemon calls os.Exit(1)
Listen(p) ==
    /\ endpoint.proc[p].pc = "listen"
    /\ endpoint' = IF endpoint.path # "none"
                   THEN [endpoint EXCEPT !.proc[p].pc = "failed"]
                   ELSE [endpoint EXCEPT !.path = p, !.mode = "umask",
                                         !.proc[p].listening = TRUE,
                                         !.proc[p].pc = "chmod"]
    /\ UNCHANGED OnlyEndpoint

\* createListener: os.Chmod(socketPath, 0600); on an error listener.Close(),
\* which unlinks the path, and the error
Chmod(p) ==
    /\ endpoint.proc[p].pc = "chmod"
    /\ endpoint' = IF endpoint.path = "none"
                   THEN [endpoint EXCEPT !.proc[p].listening = FALSE,
                                         !.proc[p].pc = "failed"]
                   ELSE [endpoint EXCEPT !.mode = "0600", !.proc[p].pc = "serve"]
    /\ UNCHANGED OnlyEndpoint

\* SIGINT or SIGTERM ("signal"), or case "shutdown_daemon" ("request": the
\* response is written, then the goroutine is started)
Trigger(p, kind) ==
    /\ InShutdown(p, "none")
    /\ kind = "request" => Connectable(p)
    /\ endpoint' = [endpoint EXCEPT !.proc[p].g = "send", !.proc[p].trigger = kind,
                                    !.proc[p].responded = (kind = "request")]
    /\ UNCHANGED OnlyEndpoint

\* a blocking send on d.shutdown: it waits for the accept loop, which receives
\* only once Accept has returned
SendShutdownBlocks(p) ==
    /\ InShutdown(p, "send")
    /\ ~endpoint.proc[p].listening
    /\ endpoint' = [endpoint EXCEPT !.proc[p].chan = 1, !.proc[p].g = "close"]
    /\ UNCHANGED OnlyEndpoint

\* shutdownDaemon: select { case d.shutdown <- true: default: }
SendShutdown(p) ==
    /\ InShutdown(p, "send")
    /\ endpoint' = [endpoint EXCEPT !.proc[p].chan = 1, !.proc[p].g = "close"]
    /\ UNCHANGED OnlyEndpoint

\* shutdownDaemon: d.listener.Close(), which unlinks the path
CloseListener(p) ==
    /\ InShutdown(p, "close")
    /\ endpoint' = Unlink([endpoint EXCEPT !.proc[p].listening = FALSE,
                                           !.proc[p].g = "cleanup"])
    /\ UNCHANGED OnlyEndpoint

\* shutdownDaemon: cleanupListener()
CleanupListener(p) ==
    /\ InShutdown(p, "cleanup")
    /\ endpoint' = Unlink([endpoint EXCEPT !.proc[p].removed = TRUE,
                                           !.proc[p].g = "zero"])
    /\ UNCHANGED OnlyEndpoint

\* shutdownDaemon: d.mu.Lock(), the loop over keyBytes, d.mu.Unlock()
ZeroKeyBytes(p) ==
    /\ InShutdown(p, "zero")
    /\ endpoint' = [endpoint EXCEPT !.proc[p].zeroed = TRUE, !.proc[p].g = "exit"]
    /\ UNCHANGED OnlyEndpoint

\* os.Exit(0) after shutdownDaemon
ExitAfterShutdown(p) ==
    /\ InShutdown(p, "exit")
    /\ endpoint' = [endpoint EXCEPT !.proc[p].pc = "exited"]
    /\ UNCHANGED OnlyEndpoint

\* serve: Accept returns an error on the closed listener, "case <-d.shutdown:
\* return nil"; startDaemon and main return and the process ends with status 0
ServeReturn(p) ==
    /\ endpoint.proc[p].pc = "serve"
    /\ endpoint.proc[p].chan = 1
    /\ ~endpoint.proc[p].listening
    /\ endpoint' = [endpoint EXCEPT !.proc[p].pc = "exited"]
    /\ UNCHANGED OnlyEndpoint

\* the process is killed (SIGKILL, power loss): the socket file stays
Kill(p) ==
    /\ endpoint.proc[p].pc \in {"chmod", "serve"}
    /\ endpoint' = [endpoint EXCEPT !.proc[p].pc = "killed",
                                    !.proc[p].listening = FALSE]
    /\ UNCHANGED OnlyEndpoint

EndpointNext ==
    \E p \in Procs :
        \/ ServeStart(p)
        \/ RemoveExisting(p)
        \/ Listen(p)
        \/ Chmod(p)
        \/ \E kind \in {"signal", "request"} : Trigger(p, kind)
        \/ SendShutdown(p)
        \/ CloseListener(p)
        \/ CleanupListener(p)
        \/ ZeroKeyBytes(p)
        \/ ExitAfterShutdown(p)
        \/ ServeReturn(p)
        \/ Kill(p)

EndpointSpec == StartInit /\ [][EndpointNext]_vars


\* ------------------------------------------------ a write that fails

\* saveActiveAccount(targetNpub) returns an error (os.WriteFile fails and
\* leaves active_account as it was); the handler drops the error and writes
\* the success response
SwitchSaveFails(h) ==
    /\ At(h, "sw_save")
    /\ conn' = [conn EXCEPT ![h].pc = "done",
                   ![h].resp = Reply(h, AccountActionResponse(conn[h].newPubkey,
                                                              conn[h].target))]
    /\ lastOk' = [seq |-> conn[h].at, npub |-> conn[h].target,
                  pubkey |-> conn[h].newPubkey, key |-> conn[h].newKey]
    /\ UNCHANGED <<disk, now, status, identity, mu, shutdown, accepted, outgoing,
                   installs, starts, start, migration, endpoint, cipher>>

\* the clients switch between A and B, remove A or B (also named with a
\* trailing separator) and ask for the active account
FaultRequests ==
    {Req(m, Npub(k), NoStr, PwOf(k), NoStr, FALSE, TRUE) :
        m \in {"switch_account", "remove_account"}, k \in {"A", "B"}}
    \cup {Req("remove_account", NpubSlash("A"), NoStr, "pwA", NoStr, FALSE, TRUE),
          Req("get_active_account", NoStr, NoStr, "", NoStr, FALSE, TRUE)}

\* the daemon on a disk whose writes of active_account may fail
FaultNext ==
    \/ \E h \in Handlers, r \in FaultRequests : Accept(h, r)
    \/ \E h \in Handlers :
          \/ GetActiveAccount(h)
          \/ SwitchPrepare(h)
          \/ SwitchTrust(h)
          \/ SwitchLock(h)
          \/ SwitchInstall(h)
          \/ SwitchSave(h)
          \/ SwitchSaveFails(h)
          \/ RemovePrepare(h)
          \/ RemoveCheck(h)
          \/ RemoveRun(h)

FaultSpec == Init /\ [][FaultNext]_vars


\* ------------------------------------------------- encryption round trip

\* the longest nsec string encrypted
MaxNsecLen == 3

\* the strings of bytes of at most n bytes
RECURSIVE Strings(_)
Strings(n) ==
    IF n = 0 THEN {<<>>}
    ELSE Strings(n - 1) \cup {Append(str, b) : str \in {x \in Strings(n - 1) : Len(x) = n - 1},
                                               b \in Byte}

OnlyCipher == <<disk, now, status, identity, mu, shutdown, conn, accepted, outgoing,
                installs, lastOk, starts, start, migration, endpoint>>

\* encryptNsec(nsec, password): rand.Read draws the salt
Encrypt ==
    /\ cipher.pc = "input"
    /\ \E salt \in Salts :
          cipher' = [cipher EXCEPT !.pc = "encrypted",
                        !.encKey = encryptNsec(cipher.nsec, cipher.password, salt)]
    /\ UNCHANGED OnlyCipher

\* decryptNsec(encKey, password) with the password of the encryption
Decrypt ==
    /\ cipher.pc = "encrypted"
    /\ cipher' = [cipher EXCEPT !.pc = "decrypted",
                                !.out = decryptNsec(cipher.encKey, cipher.password)]
    /\ UNCHANGED OnlyCipher

\* any string and any password, the empty ones included
CipherInit ==
    /\ keyFile = [k \in Dirs |-> NoFile]
    /\ trustFile = [k \in Dirs |-> NoFile]
    /\ activeFile = NoFile
    /\ now = 0
    /\ status = "down"
    /\ privateKey = NoKey
    /\ npub = NoStr
    /\ pubkey = NoStr
    /\ mu = [readers |-> {}, writer |-> "none"]
    /\ shutdown = FALSE
    /\ conn = [h \in Handlers |-> IdleConn]
    /\ accepted = 0
    /\ outgoing = NoKey
    /\ installs = 0
    /\ lastOk = NoSwitch
    /\ starts = 0
    /\ start = [pw |-> "", prompted |-> FALSE, found |-> "absent", outcome |-> "none",
                account |-> "none", buf |-> NoStr, at |-> 0, expires |-> -1]
    /\ migration = NoMigration
    /\ endpoint = NoEndpoint
    /\ \E nsec \in Strings(MaxNsecLen), password \in Passwords \cup {"pw7", ""} :
          cipher = [NoCipher EXCEPT !.pc = "input", !.nsec = nsec,
                                   !.password = password]

CipherNext == Encrypt \/ Decrypt

CipherSpec == CipherInit /\ [][CipherNext]_vars

\* ------------------------------------------- shutdown with requests in flight

\* the daemon process p1 with its connections, its lock and its endpoint: the
\* goroutines of the connections run while the process is in its accept loop

\* the clients sign an event, switch to B and ask for the shutdown
InFlightRequests ==
    {r \in SignRequests : r.event = EventOf(PubkeyHex("A"))}
    \cup {Req("switch_account", Npub("B"), NoStr, "pwB", NoStr, FALSE, TRUE)}
    \cup ShutdownRequests

\* a step of the goroutine handleConnection of h, while the process has not ended
HandlerStep(h) ==
    /\ endpoint.proc["p1"].pc = "serve"
    /\ \/ CryptoLock(h)
       \/ CryptoRun(h)
       \/ SwitchPrepare(h)
       \/ SwitchTrust(h)
       \/ SwitchLock(h)
       \/ SwitchInstall(h)
       \/ SwitchSave(h)
       \/ ShutdownRequest(h)

\* a step of shutdownDaemon and os.Exit(0); d.mu.Lock() waits for the handlers
\* that hold the lock
ShutdownStep ==
    \/ SendShutdown("p1")
    \/ CloseListener("p1")
    \/ CleanupListener("p1")
    \/ LockFree /\ ZeroKeyBytes("p1")
    \/ ExitAfterShutdown("p1")

\* listener.Accept() returns a connection while the listener is open; the
\* goroutine that runs shutdownDaemon is started by the signal, or by the
\* handler of a shutdown_daemon request after its response
ShutdownNext ==
    \/ \E h \in Handlers, r \in InFlightRequests : Connectable("p1") /\ Accept(h, r)
    \/ \E h \in Handlers : HandlerStep(h)
    \/ Trigger("p1", "signal")
    \/ shutdown /\ Trigger("p1", "request")
    \/ ShutdownStep
    \/ ServeReturn("p1")

\* the Go scheduler runs every goroutine that can run: the shutdown goroutine
\* and the accept loop do their next step when they have one; nothing is
\* assumed about the handlers, which depend on their clients
ShutdownSpec ==
    /\ Init
    /\ [][ShutdownNext]_vars
    /\ WF_vars(ShutdownStep)
    /\ WF_vars(ServeReturn("p1"))

\* ------------------------------------------------------------------- claims

\* the request names an account and carries a non-empty password that is not
\* the one the account's keys.encrypted was encrypted with
WrongPassword(req) ==
    /\ req.password # ""
    /\ DirKey(ResolveTarget(req)) # "none"
    /\ req.password # PwOf(DirKey(ResolveTarget(req)))

\* C1: a remove_account whose password is not the encryption password of its
\* stored, non-active target answers "invalid password" and removes nothing:
\* the target's keys.encrypted is still there when the handler has returned.
C1_WrongPasswordRemovesNothing ==
    \A h \in Handlers :
        (/\ conn[h].pc = "done"
         /\ conn[h].req.method = "remove_account"
         /\ WrongPassword(conn[h].req)
         /\ conn[h].target # NoStr
         /\ DirKey(conn[h].target) # DirKey(npub))
        => /\ conn[h].resp.error = "invalid password"
           /\ keyFile[DirKey(conn[h].target)] # NoFile

\* the handler h is serving a switch_account with a wrong password
WrongSwitch(h) ==
    /\ conn[h].pc \notin {"idle", "done"}
    /\ conn[h].req.method = "switch_account"
    /\ WrongPassword(conn[h].req)

\* C2: no step of a switch_account with a wrong password changes the daemon's
\* private key, npub or pubkey, the active_account file or the target's
\* trust_session file; the step ends the request with an error.
C2_WrongPasswordSwitchChangesNothing ==
    [][\A h \in Handlers :
          (WrongSwitch(h) /\ conn'[h] # conn[h])
          => /\ UNCHANGED <<identity, activeFile>>
             /\ trustFile'[DirKey(ResolveTarget(conn[h].req))]
                  = trustFile[DirKey(ResolveTarget(conn[h].req))]
             /\ conn'[h].pc = "done"
             /\ conn'[h].resp.error # ""]_vars

\* a switch_account to the stored account B with A's password has been refused
C2_Witness ==
    \E h \in Handlers :
        /\ conn[h].pc = "done"
        /\ conn[h].req.method = "switch_account"
        /\ WrongPassword(conn[h].req)
        /\ conn[h].resp.error = "corrupted key file"

\* C3: a start-up that prompts and is given a wrong password creates or changes
\* no trust_session file, and the start-up after it prompts again.
C3_WrongPasswordStartsNoSession ==
    [][/\ (starts' = starts + 1 /\ start'.prompted /\ start'.pw # PwOf(start'.account))
          => trustFile' = trustFile
       /\ (starts' = starts + 1 /\ start.prompted /\ start.pw # PwOf(start.account))
          => start'.prompted]_vars

\* C4: while a signing or encryption operation holds the shared lock, the
\* daemon's key is the key object the operation started with, the key of A or
\* of B, and the operation can finish; once finished, the request has its
\* response, and a result in it was produced with that key.
C4_KeyHeldAcrossOperation ==
    \A h \in Handlers :
        /\ conn[h].pc = "locked"
           => /\ privateKey = conn[h].held
              /\ conn[h].held.scalar \in {"A", "B"}
              /\ ENABLED CryptoRun(h)
        /\ (conn[h].pc = "done" /\ conn[h].held # NoKey)
           => /\ conn[h].resp.written
              /\ conn[h].resp.error = ""
                 => conn[h].resp.signature = <<conn[h].req.method, conn[h].held.scalar>>

\* an operation that took the lock with A's key has finished with A's key
\* while a switch_account to B was in flight, and B's key is now installed
C4_Witness ==
    \E h, g \in Handlers :
        /\ conn[h].pc = "done"
        /\ conn[h].held = [scalar |-> "A"]
        /\ conn[h].resp.signature = <<conn[h].req.method, "A">>
        /\ conn[g].req.method = "switch_account"
        /\ conn[g].pc \in {"sw_ids", "sw_save"}
        /\ privateKey = [scalar |-> "B"]

\* the response of h is the one identity sw gives
ServedWith(h, sw) ==
    LET m == conn[h].req.method
        r == conn[h].resp
    IN CASE m = "get_npub" -> r.signature = sw.npub
         [] m = "get_active_account" -> r.npub = sw.npub /\ r.pubkey = sw.pubkey
         [] m = "list_accounts" -> r.activePubkey = sw.pubkey
         [] m \in CryptoMethods -> r.error # "" \/ r.signature = <<m, sw.key.scalar>>
         [] OTHER -> TRUE

\* C5: a request on a connection accepted after a switch_account wrote its
\* success response, and served before any later install, is answered with
\* the identity of that switch (get_npub, get_active_account, the signing and
\* encryption methods, active_pubkey of list_accounts).
C5_LaterRequestsSeeNewIdentity ==
    \A h \in Handlers :
        (/\ conn[h].pc = "done"
         /\ conn[h].after.seq > 0
         /\ conn[h].at = conn[h].after.seq)
        => ServedWith(h, conn[h].after)

\* C6: whenever a handler holds the shared lock, npub encodes the public key
\* of the daemon's private key and pubkey is its hex form.
C6_IdentityTripleConsistent ==
    \A h \in Handlers :
        (conn[h].pc = "locked" /\ privateKey # NoKey)
        => /\ npub = privateKeyToNpub(privateKey)
           /\ pubkey = npubToPubkey(privateKeyToNpub(privateKey))

\* a key object whose scalar has been overwritten with zeros
ZeroKey == [scalar |-> "zero"]

\* C7: after an install by switch_account the key object that was installed
\* before holds zeros, and after shutdown the daemon's key object holds zeros.
C7_OutgoingKeyZeroed ==
    /\ installs > 0 => outgoing = ZeroKey
    /\ status = "exited" => privateKey = ZeroKey

\* C8: when a switch_account handler that decrypted an nsec has returned, on
\* the success path or an error path, the bytes of the decrypted nsec are
\* zeros and the password is gone.
C8_NsecAndPasswordCleared ==
    \A h \in Handlers :
        (/\ conn[h].pc = "done"
         /\ conn[h].req.method = "switch_account"
         /\ conn[h].buf # NoStr)
        => /\ Zeroed(conn[h].buf)
           /\ conn[h].pw = ""

\* C9: a remove_account whose target names the account the daemon is running
\* as leaves the active-account check with the error "cannot remove active
\* account - switch to another account first".
C9_ActiveAccountNotRemoved ==
    [][\A h \in Handlers :
          (/\ conn[h].pc = "rm_check"
           /\ conn'[h].pc # "rm_check"
           /\ DirKey(conn[h].target) = DirKey(npub))
          => /\ conn'[h].pc = "done"
             /\ conn'[h].resp.error = RemoveActiveError]_vars

\* C10: a start-up that finds the trust_session of the active account
\* unparsable, undecryptable or holding no valid nsec goes on to the password
\* prompt and does not crash.
C10_CorruptSessionTreatedAsAbsent ==
    [][(/\ starts' = starts + 1
        /\ start'.found \in {"unparsable", "undecryptable", "invalid_nsec"})
       => /\ start'.prompted
          /\ start'.outcome # "panic"]_vars

\* the trust_session file of account k holds a session loadAccountTrustSession reads
HasSession(k) == k # "none" /\ loadAccountTrustSession(trustFile[k]) # NoSession

\* the last start-up was unlocked with the password at the prompt
PasswordUnlock == start.prompted /\ start.outcome = "serve"

C12_SwitchPersistsTrustSession ==
    [][\A h \in Handlers :
          (conn[h].pc = "sw_trust" /\ conn'[h].pc = "sw_lock")
          => LET k == DirKey(conn[h].target)
                 session == loadAccountTrustSession(trustFile'[k])
             IN /\ session # NoSession
                /\ session.CreatedAt = FromUnix(Unix(now))
                /\ session.ExpiresAt = session.CreatedAt + TrustPeriod
                /\ decryptTrustSessionNsec(session) = NsecOf(k)]_vars

\* the legacy keys.encrypted holds the nsec of key k under k's password
LegacyKeyOf(k) ==
    \E salt \in Salts : keyFile["root"] = KeyFileText(encryptNsec(NsecOf(k), PwOf(k), salt))

\* C13: a migration of a store with a legacy keys.encrypted and no account
\* directory, given the correct password and no failing write, ends with the
\* same EncryptedKey under accounts/<npub>/ (npub of the decrypted nsec), the
\* legacy trust session (if the file holds one) under that directory,
\* active_account naming that npub, and both legacy files gone.
C13_MigrationMovesLegacyStore ==
    [][\A k \in {"A", "B"} :
          (/\ migration'.n = migration.n + 1
           /\ LegacyKeyOf(k)
           /\ Len(listAccounts) = 0
           /\ migration'.pw = PwOf(k)
           /\ migration'.fail = "none")
          => /\ migration'.result = "ok"
             /\ keyFile'[k] # NoFile
             /\ ParseKeyFile(keyFile'[k]) = loadEncryptedKey(keyFile["root"])
             /\ loadTrustSession(trustFile["root"]) # NoSession
                => loadAccountTrustSession(trustFile'[k]) = loadTrustSession(trustFile["root"])
             /\ activeFile' = ActiveFileText(Npub(k))
             /\ keyFile'["root"] = NoFile
             /\ trustFile'["root"] = NoFile]_vars

\* a legacy store with a trust session has been migrated to the account of B
C13_Witness ==
    /\ migration.result = "ok"
    /\ keyFile["root"] = NoFile /\ trustFile["root"] = NoFile
    /\ keyFile["B"] # NoFile
    /\ loadAccountTrustSession(trustFile["B"]) # NoSession
    /\ activeFile = ActiveFileText(Npub("B"))

\* C14: when migrateToMultiAccount returns an error, the legacy keys.encrypted
\* and trust_session are what they were before the call, and the key is there.
C14_FailedMigrationKeepsLegacy ==
    [][(migration'.n = migration.n + 1 /\ migration'.result = "error")
       => /\ keyFile["root"] # NoFile
          /\ keyFile'["root"] = keyFile["root"]
          /\ trustFile'["root"] = trustFile["root"]]_vars

\* a migration has failed in saveActiveAccount, after the new key was saved,
\* and the legacy key and trust session are still there
C14_Witness ==
    /\ migration.result = "error"
    /\ migration.fail = "save_active"
    /\ keyFile["root"] # NoFile /\ trustFile["root"] # NoFile
    /\ \E k \in Keys : keyFile[k] # NoFile

\* C15: the active_account file, if present, names an account directory that
\* exists under accounts/.
C15_ActiveAccountNamesDirectory ==
    activeFile # NoFile => accountExists(loadActiveAccount)

\* C16: an add_account whose password has fewer than MinPasswordLen characters
\* is answered with an error, not with success.
C16_ShortPasswordRejected ==
    \A h \in Handlers :
        (/\ conn[h].pc = "done"
         /\ conn[h].req.method = "add_account"
         /\ PwLen(conn[h].req.password) < MinPasswordLen)
        => /\ conn[h].resp.error # ""
           /\ ~conn[h].resp.success

\* C17: no step replaces the contents of an account's keys.encrypted that
\* already exists; a step may only leave the file as it is or delete it.
C17_ExistingKeyNeverOverwritten ==
    [][\A k \in Keys :
          keyFile[k] # NoFile => keyFile'[k] \in {keyFile[k], NoFile}]_vars

\* C18: a handler that has returned has written one response carrying the id of
\* its request, an unknown method is answered with the error
\* "Unknown method: <name>", and the daemon does not end while a connection it
\* accepted is still without its response.
C18_EveryConnectionAnswered ==
    \A h \in Handlers :
        /\ conn[h].pc = "done" =>
              /\ conn[h].resp.written
              /\ conn[h].resp.id = conn[h].req.id
              /\ conn[h].req.method \notin KnownMethods =>
                    conn[h].resp.error = "Unknown method: " \o conn[h].req.method
        /\ status = "exited" => conn[h].pc \in {"idle", "done"}

\* one of pubkey, created_at, kind, tags, content is missing from the event or
\* has another JSON type than the one it must have
MalformedEvent(event) ==
    \E i \in 1..Len(EventFields) :
        event[EventFields[i]].type # FieldType(EventFields[i])

\* the handler h serves its sign_event request in this step
SignStep(h) ==
    /\ conn[h].pc = "locked" /\ conn'[h].pc = "done"
    /\ conn[h].req.method = "sign_event"

C20_EventPubkeySignedVerbatim ==
    [][\A h \in Handlers :
          (SignStep(h) /\ conn[h].req.args /\ ~MalformedEvent(conn[h].req.event))
          => /\ conn'[h].resp.error = ""
             /\ conn'[h].resp.signature = <<"sign_event", privateKey.scalar>>
             /\ conn'[h].resp.signed # NoHash
             /\ conn'[h].resp.signed[2] = conn[h].req.event.pubkey.v]_vars

\* an event carrying the pubkey of B was signed by the key of A
C20_Witness ==
    \E h \in Handlers :
        /\ conn[h].pc = "done" /\ conn[h].req.method = "sign_event"
        /\ conn[h].resp.error = ""
        /\ conn[h].req.event.pubkey.v = PubkeyHex("B")
        /\ conn[h].resp.signature = <<"sign_event", "A">>
        /\ conn[h].resp.signed # NoHash
        /\ conn[h].resp.signed[2] = PubkeyHex("B")
        /\ pubkey = PubkeyHex("A")

\* the event of the sign_event example and of the command test-daemon:
\* content, kind, tags and created_at, and no pubkey
ExampleEvent == [EventOf(NoStr) EXCEPT !.pubkey = Missing]

\* C21: sign_event on the example event is answered with a signature and
\* without an error.
C21_ExampleEventSigned ==
    \A h \in Handlers :
        (/\ conn[h].pc = "done"
         /\ conn[h].req.method = "sign_event"
         /\ conn[h].req.args
         /\ conn[h].req.event = ExampleEvent)
        => /\ conn[h].resp.error = ""
           /\ conn[h].resp.signature # NoStr

\* some stored account has the pubkey pk, compared without regard to case
StoredPubkey(pk) ==
    \E i \in 1..Len(listAccounts) : LowerHex(listAccounts[i].Pubkey) = LowerHex(pk)

\* C22: switch_account and remove_account answer "pubkey or npub required"
\* exactly when no npub is given and no stored account has the request's
\* pubkey compared case-insensitively; a given npub is the target.
C22_TargetResolution ==
    \A h \in Handlers :
        (conn[h].pc = "done" /\ conn[h].req.method \in {"switch_account", "remove_account"})
        => /\ conn[h].resp.error = "pubkey or npub required"
                => (conn[h].req.npub = NoStr /\ ~StoredPubkey(conn[h].req.pubkey))
           /\ (conn[h].req.npub = NoStr /\ ~StoredPubkey(conn[h].req.pubkey)
                  /\ ~conn[h].resp.success)
                => conn[h].resp.error = "pubkey or npub required"
           /\ (conn[h].req.npub # NoStr /\ conn[h].target # NoStr)
                => conn[h].target = conn[h].req.npub

\* C23: switch_account with a wrong password for a stored account is answered
\* "invalid password".
C23_WrongPasswordReported ==
    \A h \in Handlers :
        (/\ conn[h].pc = "done"
         /\ conn[h].req.method = "switch_account"
         /\ WrongPassword(conn[h].req)
         /\ accountExists(ResolveTarget(conn[h].req)))
        => conn[h].resp.error = "invalid password"

\* C24: when the daemon process has exited, every handler that was dispatched
\* has written its response.
C24_HandlersFinishBeforeExit ==
    status = "exited" =>
        \A h \in Handlers : conn[h].pc # "idle" => conn[h].resp.written

\* C25: a shutdown_daemon request is answered before its shutdown starts;
\* the socket removal follows the send to the accept loop and the close of the
\* listener, the zeroization step follows the socket removal, and a process
\* that has exited with status 0 has run both.
C25_ShutdownOrder ==
    \A p \in Procs :
        LET d == endpoint.proc[p] IN
        /\ (d.g # "none" /\ d.trigger = "request") => d.responded
        /\ d.removed => (d.chan = 1 /\ ~d.listening)
        /\ d.zeroed => d.removed
        /\ d.pc = "exited" => (d.removed /\ d.zeroed)

\* C26: whenever the socket file exists and a client can connect through it,
\* its mode is 0600; a process whose createListener failed has no open
\* listener.
C26_SocketMode ==
    \A p \in Procs :
        /\ Connectable(p) => endpoint.mode = "0600"
        /\ endpoint.proc[p].pc = "failed" => ~endpoint.proc[p].listening

\* the process p is bound to the socket path and serving, with no shutdown
\* under way
Serving(p) == Connectable(p) /\ InShutdown(p, "none")

\* C27: while a daemon is bound to the socket path and goes on serving, no
\* step takes the path away from it.
C27_EndpointNotTakenAway ==
    [][\A p \in Procs :
          (/\ Serving(p)
           /\ endpoint'.proc[p].pc = "serve"
           /\ endpoint'.proc[p].g = "none")
          => endpoint'.path = p]_vars

\* C28: when the step of switch_account that persists active_account leaves
\* the file not naming the target, the daemon holds no key afterwards and the
\* response does not report success.
C28_FailedSwitchLocksDaemon ==
    [][\A h \in Handlers :
          (/\ conn[h].pc = "sw_save" /\ conn'[h].pc = "done"
           /\ activeFile' # ActiveFileText(conn[h].target))
          => /\ privateKey' = NoKey
             /\ ~conn'[h].resp.success]_vars

\* the handler h calls removeAccount(conn[h].target) in this step
RemoveStep(h) == conn[h].pc = "rm_remove" /\ conn'[h].pc = "done"

\* the account directory the path of x names exists
HasDirectory(x) == DirKey(x) # "none" /\ keyFile[DirKey(x)] # NoFile

C30_DecryptInvertsEncrypt ==
    cipher.pc = "decrypted" => cipher.out = cipher.nsec

\* a string longer than the derived key has made the round trip under a
\* salt other than the zero salt
C30_Witness ==
    /\ cipher.pc = "decrypted"
    /\ Len(cipher.nsec) > keyLen
    /\ cipher.encKey.Salt = <<1>>
    /\ cipher.encKey.EncryptedNsec # cipher.nsec
    /\ cipher.out = cipher.nsec

\* C31: when the connections served were all switch_account requests and all
\* have completed with success, active_account names the daemon's npub.
C31_SwitchesSerialized ==
    (\A h \in Handlers :
        /\ conn[h].pc = "done"
        /\ conn[h].req.method = "switch_account"
        /\ conn[h].resp.success)
    => loadActiveAccount = npub

\* the handler h has a signing or encryption request and is about to take
\* the shared lock
WantsRLock(h) ==
    /\ At(h, "run")
    /\ conn[h].req.method \in CryptoMethods
    /\ conn[h].req.method = "sign_event" \/ conn[h].req.args

\* C32: the exclusive lock is held only between the zeroing of the old key and
\* the install of the new identity, never by a handler that has yet to derive
\* its key; while a switch_account is at its key derivation, a signing or
\* encryption handler can take the shared lock.
C32_NoDerivationUnderLock ==
    \A h \in Handlers :
        /\ mu.writer = h => conn[h].pc = "sw_ids"
        /\ \A g \in Handlers \ {h} :
              (/\ At(h, "run") /\ conn[h].req.method = "switch_account"
               /\ WantsRLock(g))
              => ENABLED CryptoLock(g)

\* a signing handler accepted after a switch_account holds the shared lock
\* while the switch is still at its key derivation
C32_Witness ==
    \E h, g \in Handlers :
        /\ At(h, "run") /\ conn[h].req.method = "switch_account"
        /\ conn[g].pc = "locked" /\ conn[g].req.method = "sign_event"
        /\ g \in mu.readers
        /\ conn[g].req.id > conn[h].req.id


\* C33: whenever a step removes a legacy keys.encrypted that holds an
\* EncryptedKey, some accounts/<npub>/keys.encrypted holds that EncryptedKey.
C33_LegacyKeyRemovedOnlyMigrated ==
    [][(/\ keyFile["root"] # NoFile
        /\ loadEncryptedKey(keyFile["root"]) # BadKey
        /\ keyFile'["root"] = NoFile)
       => \E k \in Keys :
             /\ keyFile'[k] # NoFile
             /\ ParseKeyFile(keyFile'[k]) = loadEncryptedKey(keyFile["root"])]_vars

\* the store after the invocations of the claim: the legacy key of A or B is
\* gone, removed by the clean-up branch, and the only account is that of C
C33_Scenario ==
    /\ migration.result = "cleanup"
    /\ keyFile["root"] = NoFile
    /\ keyFile["C"] # NoFile /\ keyFile["A"] = NoFile /\ keyFile["B"] = NoFile


\* C34: a step of the shutdown of one daemon (listener.Close, cleanupListener)
\* leaves the socket file of another daemon, bound to the path after it, in
\* place: that daemon is connectable after the step as it was before.
C34_ShutdownRemovesOwnEndpoint ==
    [][\A p \in Procs : \A q \in Procs \ {p} :
          (/\ endpoint.proc[p].pc = "serve"
           /\ endpoint.proc[p].g \in {"close", "cleanup"}
           /\ endpoint'.proc[p].g # endpoint.proc[p].g
           /\ Connectable(q))
          => endpoint'.path = q /\ endpoint'.proc[q].listening]_vars


Alive == endpoint.proc["p1"].pc = "serve"

====
